---- MODULE Spec2Model ----
(***************************************************************************)
(* A model of the luffy lexer (src/src/lexer.rs): the Lexer struct, its    *)
(* cursor primitives, the literal scanners, advance_token and the tokenize *)
(* loop, run over every source string within the bounds below.             *)
(*                                                                         *)
(* A source is a sequence of characters; every character has a UTF-8       *)
(* length, and all offsets (spans, len, suffix_start) are byte offsets, as *)
(* in the code (str::len, Chars::as_str().len()).                          *)
(***************************************************************************)
EXTENDS Integers, Sequences, FiniteSets, TLC

VARIABLES src, chars, len_remaining, tot_length, tokens, pc, calls, bits,
          toks

vars == <<src, chars, len_remaining, tot_length, tokens, pc, calls, bits,
          toks>>

----------------------------------------------------------------------------
(* Bounds of the model.                                                    *)

\* Longest source, in characters, drawn from the whole alphabet.
MaxLen == 2

\* Longest source, in characters, drawn from the core alphabet.
MaxCoreLen == 4

\* Longest source, in characters, of the runs checked for termination.
MaxLiveLen == 3

\* How many times the caller invokes the public tokenize() on a built Lexer.
MaxCalls == 1

\* Width of the `as u32` cast in the model. The build has 32; the model uses
\* a width that TLC's integers can hold and that no modelled source reaches.
CastBits == 16

\* Width of the `as u32` cast in the runs that let a token reach the range
\* of the cast: a token of 2^NarrowBits bytes stands for one of 2^32 bytes.
NarrowBits == 2

----------------------------------------------------------------------------
(* Characters.  Each name stands for one char of the source.               *)

EOF_CHAR == "NUL"

AsciiLetters == {"a", "Z"}
Digits == {"0", "8", "9"}
AsciiWs == {" ", "\n"}
Operators == {"(", ")", ".", ",", "[", "]", "{", "}", "+", "-", "*", "=",
              "&", "|", "<", ">", ";"}

\* "e_acute" is U+00E9 (alphabetic, not ASCII, two bytes); "nbsp" is U+00A0
\* (Unicode whitespace, not ASCII, two bytes); "NUL" is U+0000; "#" is an
\* ASCII character no arm of advance_token names.
Alphabet == AsciiLetters \cup Digits \cup AsciiWs \cup Operators
            \cup {"_", "e_acute", "nbsp", "\"", "NUL", "#"}

CoreAlphabet == {"a", "e_acute", "0", "9", " ", "\"", "NUL", "+"}

\* char::len_utf8
Utf8Len(c) == IF c \in {"e_acute", "nbsp"} THEN 2 ELSE 1

\* char::is_ascii_whitespace
is_ascii_whitespace(c) == c \in AsciiWs

\* char::is_alphabetic (Unicode Alphabetic)
is_alphabetic(c) == c \in AsciiLetters \cup {"e_acute"}

\* str::len: the length of a string slice in bytes
RECURSIVE ByteLen(_)
ByteLen(s) == IF s = <<>> THEN 0 ELSE Utf8Len(Head(s)) + ByteLen(Tail(s))

RECURSIVE Pow2(_)
Pow2(n) == IF n = 0 THEN 1 ELSE 2 * Pow2(n - 1)

\* `x as u32` at width b
AsU32(x, b) == x % Pow2(b)

----------------------------------------------------------------------------
(* Cursor primitives.  `cs` is the Chars iterator: the unconsumed suffix.  *)

peek(cs) == IF cs = <<>> THEN EOF_CHAR ELSE Head(cs)

is_eof(cs) == cs = <<>>

\* bump: the iterator after Chars::next (unchanged when exhausted)
bump(cs) == IF cs = <<>> THEN cs ELSE Tail(cs)

pos_within_token(lr, cs, b) == AsU32(lr - ByteLen(cs), b)

\* Mutant: the mark is taken in characters instead of bytes.
reset_pos_within_token_chars(cs) == Len(cs)

reset_pos_within_token(cs) == ByteLen(cs)

\* eat_while with the predicate given as the set of characters it accepts
RECURSIVE eat_while(_, _)
eat_while(cs, accepted) ==
    IF peek(cs) \in accepted /\ ~is_eof(cs)
    THEN eat_while(bump(cs), accepted)
    ELSE cs

IdentContinue == {c \in Alphabet : is_alphabetic(c) \/ c = "_"}

eat_ident(cs) == eat_while(cs, IdentContinue)

RECURSIVE eat_decimal_digits(_)
eat_decimal_digits(cs) ==
    IF peek(cs) \in {"0", "1", "2", "3", "4", "5", "6", "7", "8", "9"}
    THEN eat_decimal_digits(bump(cs))
    ELSE cs

number(cs) == eat_decimal_digits(cs)

\* Mutant: the scan for the closing quote peeks and takes the sentinel
\* character for the end of input.
RECURSIVE is_str_terminated_nul(_)
is_str_terminated_nul(cs) ==
    IF peek(cs) = EOF_CHAR THEN [terminated |-> FALSE, chars |-> cs]
    ELSE IF Head(cs) = "\"" THEN [terminated |-> TRUE, chars |-> Tail(cs)]
    ELSE is_str_terminated_nul(Tail(cs))

\* is_str_terminated: the returned flag and the iterator it leaves
RECURSIVE is_str_terminated(_)
is_str_terminated(cs) ==
    IF cs = <<>> THEN [terminated |-> FALSE, chars |-> cs]
    ELSE IF Head(cs) = "\"" THEN [terminated |-> TRUE, chars |-> Tail(cs)]
    ELSE is_str_terminated(Tail(cs))

\* Mutant: suffix_start is taken one byte too far.
eat_string_plus1(lr, cs, b) ==
    LET r == is_str_terminated(cs)
        suffix_start == pos_within_token(lr, r.chars, b) + 1
        rest == IF r.terminated THEN eat_ident(r.chars) ELSE r.chars
    IN  [kind |-> [tag |-> "Literal",
                   kind |-> [tag |-> "Str", terminated |-> r.terminated],
                   suffix_start |-> suffix_start],
         chars |-> rest]

eat_string(lr, cs, b) ==
    LET r == is_str_terminated(cs)
        suffix_start == pos_within_token(lr, r.chars, b)
        rest == IF r.terminated THEN eat_ident(r.chars) ELSE r.chars
    IN  [kind |-> [tag |-> "Literal",
                   kind |-> [tag |-> "Str", terminated |-> r.terminated],
                   suffix_start |-> suffix_start],
         chars |-> rest]

----------------------------------------------------------------------------
(* Tokens.                                                                 *)

\* Mutant: the two offsets of the span are taken in the wrong order.
Token_new_swapped(kind, len, start, end) ==
    [kind |-> kind, len |-> len, span |-> [start |-> end, end |-> start]]

Token_new(kind, len, start, end) ==
    [kind |-> kind, len |-> len, span |-> [start |-> start, end |-> end]]

Span_len(sp) == sp.end - sp.start

\* str::is_char_boundary: off is 0, or the end of a character of s
RECURSIVE is_char_boundary(_, _)
is_char_boundary(s, off) ==
    IF off = 0 THEN TRUE
    ELSE IF s = <<>> \/ off < Utf8Len(Head(s)) THEN FALSE
    ELSE is_char_boundary(Tail(s), off - Utf8Len(Head(s)))

\* The number of characters of s that lie before the character boundary off
RECURSIVE CharsBefore(_, _)
CharsBefore(s, off) ==
    IF off = 0 THEN 0
    ELSE 1 + CharsBefore(Tail(s), off - Utf8Len(Head(s)))

\* Span::slice: &src[start..end], which panics when the range is out of
\* order, out of range or off a character boundary
Span_slice(sp, s) ==
    IF sp.start <= sp.end /\ is_char_boundary(s, sp.start)
                         /\ is_char_boundary(s, sp.end)
    THEN SubSeq(s, CharsBefore(s, sp.start) + 1, CharsBefore(s, sp.end))
    ELSE <<"panic">>

OperatorKind(c) ==
    CASE c = "(" -> "OpenParen"
      [] c = ")" -> "CloseParen"
      [] c = "." -> "Dot"
      [] c = "," -> "Comma"
      [] c = "[" -> "OpenBracket"
      [] c = "]" -> "CloseBracket"
      [] c = "{" -> "OpenBrace"
      [] c = "}" -> "CloseBrace"
      [] c = "+" -> "Plus"
      [] c = "-" -> "Minus"
      [] c = "*" -> "Star"
      [] c = "=" -> "Eq"
      [] c = "&" -> "And"
      [] c = "|" -> "Or"
      [] c = "<" -> "Lt"
      [] c = ">" -> "Gt"
      [] c = ";" -> "Semi"

\* The arm `'0'..'9'` of advance_token: a half-open range pattern
IntStart == {"0", "1", "2", "3", "4", "5", "6", "7", "8"}

\* The arm `'_' | 'a'..='z' | 'A'..='Z'` of advance_token
IdentStart == AsciiLetters \cup {"_"}

\* Each arm of the match of advance_token gives the token kind and the
\* iterator it leaves; c is the bumped character, cs the iterator after it.

\* Mutant: the whitespace arm stops after the bumped character.
ws_arm_single(cs) == [kind |-> [tag |-> "Ws"], chars |-> cs]

ws_arm(cs) ==
    [kind |-> [tag |-> "Ws"],
     chars |-> eat_while(cs, {x \in Alphabet : is_ascii_whitespace(x)})]

\* Mutant: a doubled operator character is taken as one token.
operator_arm_doubled(c, cs) ==
    [kind |-> [tag |-> OperatorKind(c)],
     chars |-> IF peek(cs) = c THEN bump(cs) ELSE cs]

operator_arm(c, cs) == [kind |-> [tag |-> OperatorKind(c)], chars |-> cs]

int_arm(lr, cs, b) ==
    LET rest == number(cs)
    IN  [kind |-> [tag |-> "Literal", kind |-> [tag |-> "Int"],
                   suffix_start |-> pos_within_token(lr, rest, b)],
         chars |-> rest]

ident_arm(cs) == [kind |-> [tag |-> "Ident"], chars |-> eat_ident(cs)]

\* Mutant: the fallback arm skips the whole run of unrecognized characters.
unknown_arm_run(cs) ==
    [kind |-> [tag |-> "Unknown"],
     chars |-> eat_while(cs, {"#", "nbsp", "e_acute"})]

unknown_arm(cs) == [kind |-> [tag |-> "Unknown"], chars |-> cs]

match_kind(c, lr, cs, b) ==
    IF is_ascii_whitespace(c) THEN ws_arm(cs)
    ELSE IF c \in Operators THEN operator_arm(c, cs)
    ELSE IF c \in IntStart THEN int_arm(lr, cs, b)
    ELSE IF c \in IdentStart THEN ident_arm(cs)
    ELSE IF c = "\"" THEN eat_string(lr, cs, b)
    ELSE unknown_arm(cs)

\* Mutant: the sentinel character is taken for the end of input.
advance_token_nul(cs, lr, tot, b) ==
    IF peek(cs) = EOF_CHAR
    THEN [token |-> Token_new([tag |-> "Eof"], 0, tot, tot),
          chars |-> cs, len_remaining |-> lr]
    ELSE LET m == match_kind(peek(cs), lr, bump(cs), b)
             token_len == pos_within_token(lr, m.chars, b)
         IN  [token |-> Token_new(m.kind, token_len, tot - lr,
                                  tot - lr + token_len),
              chars |-> m.chars,
              len_remaining |-> reset_pos_within_token(m.chars)]

\* Mutant: the first character is peeked, not bumped.
advance_token_peek(cs, lr, tot, b) ==
    IF cs = <<>>
    THEN [token |-> Token_new([tag |-> "Eof"], 0, tot, tot),
          chars |-> cs, len_remaining |-> lr]
    ELSE LET m == match_kind(peek(cs), lr, cs, b)
             token_len == pos_within_token(lr, m.chars, b)
         IN  [token |-> Token_new(m.kind, token_len, tot - lr,
                                  tot - lr + token_len),
              chars |-> m.chars,
              len_remaining |-> reset_pos_within_token(m.chars)]

\* Mutant: the len of the token counts characters, its span bytes.
advance_token_charlen(cs, lr, tot, b) ==
    IF cs = <<>>
    THEN [token |-> Token_new([tag |-> "Eof"], 0, tot, tot),
          chars |-> cs, len_remaining |-> lr]
    ELSE LET m == match_kind(peek(cs), lr, bump(cs), b)
             token_len == pos_within_token(lr, m.chars, b)
         IN  [token |-> Token_new(m.kind, Len(cs) - Len(m.chars), tot - lr,
                                  tot - lr + token_len),
              chars |-> m.chars,
              len_remaining |-> reset_pos_within_token(m.chars)]

\* advance_token: the token returned and the fields of the Lexer after it
advance_token(cs, lr, tot, b) ==
    IF cs = <<>>
    THEN [token |-> Token_new([tag |-> "Eof"], 0, tot, tot),
          chars |-> cs, len_remaining |-> lr]
    ELSE LET m == match_kind(peek(cs), lr, bump(cs), b)
             token_len == pos_within_token(lr, m.chars, b)
         IN  [token |-> Token_new(m.kind, token_len, tot - lr,
                                  tot - lr + token_len),
              chars |-> m.chars,
              len_remaining |-> reset_pos_within_token(m.chars)]

----------------------------------------------------------------------------
(* The program.                                                            *)

Strings(A, n) == UNION {[1..k -> A] : k \in 0..n}

Sources == Strings(Alphabet, MaxLen) \cup Strings(CoreAlphabet, MaxCoreLen)

\* Lexer::new up to the call of lex.tokenize(): the struct literal.
Init ==
    /\ src \in Sources
    /\ chars = src
    /\ len_remaining = ByteLen(src)
    /\ tot_length = ByteLen(src)
    /\ tokens = <<>>
    /\ pc = "new"
    /\ calls = 0
    /\ bits = CastBits
    /\ toks = <<>>

InTokenize == pc \in {"new", "tokenize"}

\* One iteration of the loop of tokenize that does not break.
PushToken ==
    /\ InTokenize
    /\ LET r == advance_token(chars, len_remaining, tot_length, bits)
       IN  /\ r.token.kind.tag # "Eof"
           /\ tokens' = Append(tokens, r.token)
           /\ chars' = r.chars
           /\ len_remaining' = r.len_remaining
    /\ UNCHANGED <<src, tot_length, pc, calls, bits, toks>>

\* Mutant: the iteration that pushes Eof rewinds the iterator to the start
\* of the source.
PushEof_rewind ==
    /\ InTokenize
    /\ LET r == advance_token(chars, len_remaining, tot_length, bits)
       IN  /\ r.token.kind.tag = "Eof"
           /\ tokens' = Append(tokens, r.token)
    /\ chars' = src
    /\ len_remaining' = tot_length
    /\ pc' = "ready"
    /\ UNCHANGED <<src, tot_length, calls, bits, toks>>

\* The iteration of the loop of tokenize that pushes Eof and breaks;
\* tokenize returns (and with it Lexer::new, when new made the call).
PushEof ==
    /\ InTokenize
    /\ LET r == advance_token(chars, len_remaining, tot_length, bits)
       IN  /\ r.token.kind.tag = "Eof"
           /\ tokens' = Append(tokens, r.token)
           /\ chars' = r.chars
           /\ len_remaining' = r.len_remaining
    /\ pc' = "ready"
    /\ UNCHANGED <<src, tot_length, calls, bits, toks>>

\* The caller invokes the public tokenize() on the Lexer that new returned.
CallTokenize ==
    /\ pc = "ready"
    /\ calls < MaxCalls
    /\ pc' = "tokenize"
    /\ calls' = calls + 1
    /\ UNCHANGED <<src, chars, len_remaining, tot_length, tokens, bits, toks>>

\* Mutant: the running offset of Parser::new is never advanced.
RECURSIVE Parser_new_loop_stuck(_, _)
Parser_new_loop_stuck(ts, off) ==
    IF ts = <<>> THEN <<>>
    ELSE LET len == Head(ts).len
         IN  <<[kind |-> Head(ts).kind,
                span |-> [start |-> off, end |-> off + len]]>>
             \o Parser_new_loop_stuck(Tail(ts), off)

\* The loop of Parser::new over the tokens ts, with the running offset off:
\* the SpanTokens it pushes
RECURSIVE Parser_new_loop(_, _)
Parser_new_loop(ts, off) ==
    IF ts = <<>> THEN <<>>
    ELSE LET len == Head(ts).len
         IN  <<[kind |-> Head(ts).kind,
                span |-> [start |-> off, end |-> off + len]]>>
             \o Parser_new_loop(Tail(ts), off + len)

\* Parser::new: the field toks of the Parser it returns
Parser_new(ts) == Parser_new_loop(ts, 0)

\* The caller hands the tokens of the Lexer to Parser::new.
ParserNew ==
    /\ pc = "ready"
    /\ toks' = Parser_new(tokens)
    /\ pc' = "parsed"
    /\ UNCHANGED <<src, chars, len_remaining, tot_length, tokens, calls, bits>>

Next == PushToken \/ PushEof \/ CallTokenize \/ ParserNew

Spec == Init /\ [][Next]_vars

\* The runs checked for termination: the same program over the core sources
\* of at most MaxLiveLen characters.
LiveInit == Init /\ src \in Strings(CoreAlphabet, MaxLiveLen)

\* The loop of tokenize is sequential code: an iteration that can run, runs.
LiveSpec ==
    LiveInit /\ [][Next]_vars /\ WF_vars(PushToken) /\ WF_vars(PushEof)

\* The same program with the `as u32` cast NarrowBits wide, so that the
\* tokens of the modelled sources reach the range of the cast.
NarrowInit ==
    /\ src \in Sources
    /\ chars = src
    /\ len_remaining = ByteLen(src)
    /\ tot_length = ByteLen(src)
    /\ tokens = <<>>
    /\ pc = "new"
    /\ calls = 0
    /\ bits = NarrowBits
    /\ toks = <<>>

NarrowSpec == NarrowInit /\ [][Next]_vars

----------------------------------------------------------------------------
(* Vocabulary of the properties.                                           *)

\* No pass is running: the call of tokenize has returned.
Returned == pc \in {"ready", "parsed"}

\* Lexer::new has returned and the caller has made no call of its own.
Built == pc = "ready" /\ calls = 0

Last(s) == s[Len(s)]

RECURSIVE Concat(_)
Concat(ss) == IF ss = <<>> THEN <<>> ELSE Head(ss) \o Concat(Tail(ss))

Slices == [i \in 1..Len(tokens) |-> Span_slice(tokens[i].span, src)]

\* The string s without its first n bytes; empty when n is inside a
\* character or beyond the string
RECURSIVE DropBytes(_, _)
DropBytes(s, n) ==
    IF n = 0 THEN s
    ELSE IF s = <<>> \/ n < Utf8Len(Head(s)) THEN <<>>
    ELSE DropBytes(Tail(s), n - Utf8Len(Head(s)))

\* The unconsumed region the token t was scanned from
Region(t) == DropBytes(src, t.span.start)

\* The length, in characters, of the longest prefix of cs inside the set
RECURSIVE RunLen(_, _)
RunLen(cs, set) ==
    IF cs # <<>> /\ Head(cs) \in set THEN 1 + RunLen(Tail(cs), set) ELSE 0

HasMultiByte == \E i \in 1..Len(src) : Utf8Len(src[i]) > 1

----------------------------------------------------------------------------
\* C1: after Lexer::new(s) the spans tile the source: the first span starts
\* at 0, each span ends where the next starts, the last span ends at len(s),
\* and the slices of the spans, concatenated in order, give back s.
C1_SpansTile ==
    Built =>
        /\ tokens[1].span.start = 0
        /\ \A i \in 1..(Len(tokens) - 1) :
               tokens[i].span.end = tokens[i + 1].span.start
        /\ Last(tokens).span.end = ByteLen(src)
        /\ Concat(Slices) = src

C1_Witness ==
    /\ Built
    /\ Len(tokens) >= 4
    /\ HasMultiByte
    /\ \E i \in 1..Len(tokens) : Span_len(tokens[i].span) >= 3

\* C2: after Lexer::new(s) there is exactly one Eof token; it is the last
\* one, with the empty span at len(s); and no Eof token is pushed while
\* input remains.
C2_OneEofLast ==
    calls = 0 =>
        /\ \A i \in 1..Len(tokens) :
               tokens[i].kind.tag = "Eof" =>
                   /\ i = Len(tokens)
                   /\ Returned
                   /\ chars = <<>>
                   /\ tokens[i].span = [start |-> ByteLen(src),
                                        end |-> ByteLen(src)]
        /\ Returned =>
               /\ tokens # <<>>
               /\ Last(tokens).kind.tag = "Eof"
               /\ Cardinality({i \in 1..Len(tokens) :
                                  tokens[i].kind.tag = "Eof"}) = 1

C2_Witness ==
    /\ Built
    /\ Len(tokens) >= 3
    /\ \E i \in 1..Len(src) : src[i] = EOF_CHAR

\* C3: once Lexer::new has returned, no step changes the token sequence,
\* a later call of the public tokenize() included.
C3_TokensFrozen == [][pc # "new" => tokens' = tokens]_vars

\* C4: the loop of tokenize terminates: every iteration consumes at least
\* one character or pushes Eof, the sequence built by Lexer::new has at
\* most one token per character plus Eof, and the pass reaches its return.
C4_Terminates ==
    /\ [][InTokenize => \/ Len(chars') < Len(chars)
                        \/ Last(tokens').kind.tag = "Eof"]_vars
    /\ [](calls = 0 => Len(tokens) <= Len(src) + 1)
    /\ []((pc = "new") => <>(pc = "ready"))

C4_Witness ==
    /\ Built
    /\ Len(src) = MaxLiveLen
    /\ Len(tokens) = Len(src) + 1

\* The text of the token t
Text(t) == Span_slice(t.span, src)

IsLiteral(t, lit) == t.kind.tag = "Literal" /\ t.kind.kind.tag = lit

\* C5: a region that starts with a decimal digit yields one Literal{Int}
\* token over the maximal run of decimal digits, with suffix_start equal to
\* the token length.
C5_DigitStartsInt ==
    \A i \in 1..Len(tokens) :
        LET t == tokens[i]
            r == Region(t)
        IN  (r # <<>> /\ r[1] \in Digits) =>
                /\ IsLiteral(t, "Int")
                /\ Text(t) = SubSeq(r, 1, RunLen(r, Digits))
                /\ t.kind.suffix_start = t.len

\* The identifier-shaped characters: alphanumeric or '_'
IdentShaped == {c \in Alphabet : is_alphabetic(c) \/ c \in Digits \/ c = "_"}

\* C6: a region that starts with an alphabetic character or '_' yields one
\* Ident token over the maximal run of alphanumeric or '_' characters, so no
\* token that follows an Ident starts with such a character.  (The first
\* character is taken among the ASCII letters and '_', the characters the
\* arm of advance_token names, which is the least the statement asks for.)
C6_IdentMaximal ==
    \A i \in 1..Len(tokens) :
        LET t == tokens[i]
            r == Region(t)
        IN  /\ (r # <<>> /\ r[1] \in AsciiLetters \cup {"_"}) =>
                   /\ t.kind.tag = "Ident"
                   /\ Text(t) = SubSeq(r, 1, RunLen(r, IdentShaped))
            /\ (i > 1 /\ tokens[i - 1].kind.tag = "Ident") =>
                   (r = <<>> \/ r[1] \notin IdentShaped)

\* The index in r of the first '"' after the opening one, 0 when none
ClosingQuote(r) ==
    IF \E j \in 2..Len(r) : r[j] = "\""
    THEN CHOOSE j \in 2..Len(r) :
             r[j] = "\"" /\ \A k \in 2..(j - 1) : r[k] # "\""
    ELSE 0

\* C7: a region that starts with '"' and has a later '"' yields a
\* Literal{Str{terminated: true}} token whose suffix_start is the offset
\* right after the first closing quote and whose span ends after the maximal
\* run of alphanumeric or '_' characters that follows that quote.
C7_TerminatedStr ==
    \A i \in 1..Len(tokens) :
        LET t == tokens[i]
            r == Region(t)
            q == ClosingQuote(r)
        IN  (r # <<>> /\ r[1] = "\"" /\ q > 0) =>
                /\ IsLiteral(t, "Str")
                /\ t.kind.kind.terminated
                /\ t.kind.suffix_start = ByteLen(SubSeq(r, 1, q))
                /\ Text(t) = SubSeq(r, 1,
                       q + RunLen(SubSeq(r, q + 1, Len(r)), IdentShaped))

\* C8: a region that starts with '"' and has no later '"' yields a
\* Literal{Str{terminated: false}} token from the opening quote to
\* len(source), with suffix_start equal to the token length; nothing follows
\* it but Eof, which Lexer::new does push.
C8_UnterminatedStr ==
    calls = 0 =>
        \A i \in 1..Len(tokens) :
            LET t == tokens[i]
                r == Region(t)
            IN  (r # <<>> /\ r[1] = "\"" /\ ClosingQuote(r) = 0) =>
                    /\ IsLiteral(t, "Str")
                    /\ ~t.kind.kind.terminated
                    /\ t.span.end = ByteLen(src)
                    /\ Text(t) = r
                    /\ t.kind.suffix_start = t.len
                    /\ t.len = Span_len(t.span)
                    /\ chars = <<>>
                    /\ IF Returned
                       THEN i = Len(tokens) - 1 /\ Last(tokens).kind.tag = "Eof"
                       ELSE i = Len(tokens)

C8_Witness ==
    /\ Built
    /\ Len(tokens) >= 3
    /\ \E i \in 1..Len(tokens) :
           /\ IsLiteral(tokens[i], "Str")
           /\ ~tokens[i].kind.kind.terminated
           /\ Len(Text(tokens[i])) >= 3
           /\ \E j \in 1..Len(src) : src[j] = EOF_CHAR

\* The tokens of a pass over the iterator cs of a source of tot bytes
RECURSIVE Pass(_, _, _, _)
Pass(cs, lr, tot, b) ==
    LET r == advance_token(cs, lr, tot, b)
    IN  IF r.token.kind.tag = "Eof" THEN <<r.token>>
        ELSE <<r.token>> \o Pass(r.chars, r.len_remaining, tot, b)

\* The tokens of a pass over s as a source of its own, moved by off bytes
Shifted(s, off) ==
    LET ts == Pass(s, ByteLen(s), ByteLen(s), bits)
    IN  [k \in 1..Len(ts) |->
            [ts[k] EXCEPT !.span = [start |-> ts[k].span.start + off,
                                    end |-> ts[k].span.end + off]]]

\* C9: an Unknown token is one character of the source; the pass goes on
\* after it: the text behind it is tokenized as it would be on its own, and
\* the sequence Lexer::new returns ends with Eof at len(source).
C9_UnknownOneChar ==
    calls = 0 =>
        \A i \in 1..Len(tokens) :
            LET t == tokens[i]
                r == Region(t)
            IN  t.kind.tag = "Unknown" =>
                    /\ r # <<>>
                    /\ Text(t) = <<r[1]>>
                    /\ t.len = Utf8Len(r[1])
                    /\ pc = "new" => ENABLED (PushToken \/ PushEof)
                    /\ Returned =>
                           /\ i < Len(tokens)
                           /\ SubSeq(tokens, i + 1, Len(tokens))
                                  = Shifted(Tail(r), t.span.end)
                           /\ Last(tokens).span.end = ByteLen(src)
                           /\ Last(tokens).kind.tag = "Eof"

C9_Witness ==
    /\ Built
    /\ \E i \in 1..(Len(tokens) - 2) :
           /\ tokens[i].kind.tag = "Unknown"
           /\ tokens[i].len = 2
           /\ tokens[i + 1].kind.tag = "Unknown"
           /\ tokens[i + 2].kind.tag \notin {"Unknown", "Eof"}

\* The kinds of the 17 operator and punctuation characters
ClaimedKind ==
    [c \in Operators |->
        CASE c = "+" -> "Plus"         [] c = "-" -> "Minus"
          [] c = "*" -> "Star"         [] c = "=" -> "Eq"
          [] c = "<" -> "Lt"           [] c = ">" -> "Gt"
          [] c = "&" -> "And"          [] c = "|" -> "Or"
          [] c = ";" -> "Semi"         [] c = "," -> "Comma"
          [] c = "." -> "Dot"          [] c = "(" -> "OpenParen"
          [] c = ")" -> "CloseParen"   [] c = "{" -> "OpenBrace"
          [] c = "}" -> "CloseBrace"   [] c = "[" -> "OpenBracket"
          [] c = "]" -> "CloseBracket"]

\* C10: a region that starts with one of the 17 operator and punctuation
\* characters yields a token of that character's kind and of length 1,
\* whatever follows; the kinds of the 17 characters are 17 different kinds.
C10_OperatorsSingle ==
    /\ Cardinality(Operators) = 17
    /\ Cardinality({ClaimedKind[c] : c \in Operators}) = 17
    /\ \A i \in 1..Len(tokens) :
           LET t == tokens[i]
               r == Region(t)
           IN  (r # <<>> /\ r[1] \in Operators) =>
                   /\ t.kind.tag = ClaimedKind[r[1]]
                   /\ t.len = 1
                   /\ Text(t) = <<r[1]>>

C10_Witness ==
    /\ Built
    /\ \E i \in 1..(Len(tokens) - 2) :
           /\ tokens[i].kind.tag = "Eq"
           /\ tokens[i].len = 1
           /\ tokens[i + 1].kind.tag = "Eq"
           /\ tokens[i + 2].kind.tag = "Eof"

\* C11: a region that starts with a whitespace character (the lexer's
\* whitespace: char::is_ascii_whitespace) yields one Ws token over the
\* maximal run of whitespace characters; no Ws token follows a Ws token; and
\* a non-empty source of whitespace only yields Ws over the whole source and
\* then Eof, two tokens.
C11_WsMaximal ==
    /\ \A i \in 1..Len(tokens) :
           LET t == tokens[i]
               r == Region(t)
           IN  /\ (r # <<>> /\ r[1] \in AsciiWs) =>
                      /\ t.kind.tag = "Ws"
                      /\ Text(t) = SubSeq(r, 1, RunLen(r, AsciiWs))
               /\ (i > 1 /\ tokens[i - 1].kind.tag = "Ws") =>
                      t.kind.tag # "Ws"
    /\ (Built /\ src # <<>> /\ \A k \in 1..Len(src) : src[k] \in AsciiWs) =>
           /\ Len(tokens) = 2
           /\ tokens[1].kind.tag = "Ws"
           /\ tokens[1].span = [start |-> 0, end |-> ByteLen(src)]
           /\ tokens[2].kind.tag = "Eof"

C11_Witness ==
    /\ Built
    /\ Len(tokens) >= 3
    /\ \E i \in 1..Len(tokens) :
           tokens[i].kind.tag = "Ws" /\ tokens[i].len >= 3

\* C12: the suffix_start of every Literal token lies between 0 and the
\* length of the token's span.
C12_SuffixInSpan ==
    \A i \in 1..Len(tokens) :
        tokens[i].kind.tag = "Literal" =>
            /\ 0 <= tokens[i].kind.suffix_start
            /\ tokens[i].kind.suffix_start <= Span_len(tokens[i].span)

C12_Witness ==
    /\ Built
    /\ \E i, j \in 1..Len(tokens) :
           /\ IsLiteral(tokens[i], "Str")
           /\ tokens[i].kind.kind.terminated
           /\ tokens[i].kind.suffix_start < Span_len(tokens[i].span)
           /\ IsLiteral(tokens[j], "Int")

\* C13: every token other than Eof has a non-empty span, the start offsets
\* of the tokens other than Eof increase strictly, and a token with an
\* empty span is an Eof token.
C13_NonEmptySpans ==
    /\ \A i \in 1..Len(tokens) :
           tokens[i].kind.tag # "Eof" <=>
               tokens[i].span.start < tokens[i].span.end
    /\ \A i \in 1..Len(tokens) :
           tokens[i].span.start = tokens[i].span.end =>
               tokens[i].kind.tag = "Eof"
    /\ \A i, j \in 1..Len(tokens) :
           (i < j /\ tokens[j].kind.tag # "Eof") =>
               tokens[i].span.start < tokens[j].span.start

C13_Witness ==
    /\ Built
    /\ Len(tokens) = MaxCoreLen + 1
    /\ HasMultiByte

\* C14: the len of every token other than Eof is span.end - span.start.
C14_LenIsSpanLen ==
    \A i \in 1..Len(tokens) :
        tokens[i].kind.tag # "Eof" =>
            tokens[i].len = tokens[i].span.end - tokens[i].span.start

C14_Witness ==
    /\ Built
    /\ \E i \in 2..Len(tokens) :
           /\ tokens[i].kind.tag # "Eof"
           /\ tokens[i].len = 3
           /\ Len(Text(tokens[i])) = 2

\* C15: the span of every token lies inside the source, in order and on
\* character boundaries, so that Span::slice on the source does not fault.
C15_SpansInRange ==
    \A i \in 1..Len(tokens) :
        /\ 0 <= tokens[i].span.start
        /\ tokens[i].span.start <= tokens[i].span.end
        /\ tokens[i].span.end <= ByteLen(src)
        /\ is_char_boundary(src, tokens[i].span.start)
        /\ is_char_boundary(src, tokens[i].span.end)
        /\ Span_slice(tokens[i].span, src) # <<"panic">>

C15_Witness ==
    /\ Built
    /\ Len(tokens) >= 3
    /\ \E k \in 1..(Len(src) - 1) :
           Utf8Len(src[k]) = 2 /\ Utf8Len(src[k + 1]) = 2
    /\ \E i \in 1..Len(tokens) :
           tokens[i].kind.tag = "Unknown" /\ tokens[i].len = 2

IsSuffix(a, b) ==
    Len(a) <= Len(b) /\ a = SubSeq(b, Len(b) - Len(a) + 1, Len(b))

\* Every position of the iterator over the source
Cursors == {SubSeq(src, k + 1, Len(src)) : k \in 0..Len(src)}

\* C16: the cursor never moves back: no step of the program and no cursor
\* primitive, scanner or advance_token, from any position of the source,
\* leaves more unconsumed bytes than it found; peek returns the next
\* character, and the sentinel at the end of input.
C16_CursorMonotone ==
    /\ [][IsSuffix(chars', chars) /\ ByteLen(chars') <= ByteLen(chars)]_vars
    /\ [](\A cs \in Cursors :
            /\ peek(cs) = (IF cs = <<>> THEN EOF_CHAR ELSE cs[1])
            /\ is_eof(cs) = (ByteLen(cs) = 0)
            /\ IsSuffix(bump(cs), cs)
            /\ IsSuffix(eat_while(cs, IdentContinue), cs)
            /\ IsSuffix(eat_while(cs, AsciiWs), cs)
            /\ IsSuffix(eat_decimal_digits(cs), cs)
            /\ IsSuffix(is_str_terminated(cs).chars, cs)
            /\ IsSuffix(advance_token(cs, ByteLen(cs), tot_length, bits).chars,
                        cs))

C16_Witness ==
    /\ pc = "new"
    /\ Len(tokens) >= 2
    /\ chars # <<>>
    /\ HasMultiByte

\* The source with every NUL replaced by '#'
NulAsHash == [k \in 1..Len(src) |-> IF src[k] = EOF_CHAR THEN "#" ELSE src[k]]

\* C17: a NUL in the source is not taken for the end of input: at the start
\* of a region it yields a one-character Unknown token; Eof is pushed only
\* at len(source) with nothing left to read; and the tokens of the source
\* are those of the source with '#', an ordinary unrecognized character, in
\* the place of every NUL, so that a NUL in a string body is skipped as any
\* character is.
C17_NulNotEof ==
    calls = 0 =>
        /\ \A i \in 1..Len(tokens) :
               LET t == tokens[i]
                   r == Region(t)
               IN  /\ (r # <<>> /\ r[1] = EOF_CHAR) =>
                          /\ t.kind.tag = "Unknown"
                          /\ t.len = 1
                          /\ Text(t) = <<EOF_CHAR>>
                   /\ t.kind.tag = "Eof" =>
                          /\ t.span.start = ByteLen(src)
                          /\ chars = <<>>
        /\ Returned =>
               /\ Last(tokens).span.end = ByteLen(src)
               /\ tokens = Pass(NulAsHash, ByteLen(src), ByteLen(src), bits)

C17_Witness ==
    /\ Built
    /\ \E i \in 1..(Len(tokens) - 1) :
           /\ tokens[i].kind.tag = "Unknown"
           /\ Text(tokens[i]) = <<EOF_CHAR>>
           /\ IsLiteral(tokens[i + 1], "Str")
           /\ tokens[i + 1].kind.kind.terminated
           /\ \E k \in 1..Len(Text(tokens[i + 1])) :
                  Text(tokens[i + 1])[k] = EOF_CHAR

\* C18: the spans Parser::new computes from the len of the tokens, from
\* offset 0 on, are the spans the Lexer recorded, token by token, Eof
\* included.
C18_ParserSpans ==
    pc = "parsed" =>
        /\ Len(toks) = Len(tokens)
        /\ \A i \in 1..Len(tokens) :
               /\ toks[i].kind = tokens[i].kind
               /\ toks[i].span.start = tokens[i].span.start
               /\ toks[i].span.end = tokens[i].span.end

C18_Witness ==
    /\ pc = "parsed"
    /\ calls = 0
    /\ Len(toks) >= 4
    /\ HasMultiByte
    /\ toks[Len(toks)].kind.tag = "Eof"
    /\ toks[Len(toks)].span.start >= 4

\* The true end of the token i: the start of the next token, or the
\* position of the cursor when no token follows
TrueEnd(i) ==
    IF i < Len(tokens) THEN tokens[i + 1].span.start
    ELSE tot_length - ByteLen(chars)

\* C19: the distance pos_within_token returns is the number of bytes
\* consumed since the last reset for every token, a token that reaches the
\* range of the cast included: len and span.end - span.start are the true
\* distance, suffix_start is not beyond it, and the next token starts where
\* the span ends.
C19_CastExact ==
    calls = 0 =>
        \A i \in 1..Len(tokens) :
            LET t == tokens[i]
            IN  /\ t.len = TrueEnd(i) - t.span.start
                /\ t.span.end = TrueEnd(i)
                /\ t.kind.tag = "Literal" =>
                       t.kind.suffix_start <= TrueEnd(i) - t.span.start

====
